---- MODULE Spec2Model ----
(***************************************************************************)
(* Circular values (CircVal.h) and circular statistics (CircStat.h).       *)
(*                                                                         *)
(* A C++ double is modelled by a rational <<n, d>> in lowest terms with    *)
(* d > 0, so that two equal reals are equal tuples and the code's exact    *)
(* comparisons (==, <) are decided exactly.  Of IEEE rounding, the model   *)
(* has the loss of a term below half an ulp of the other term of a sum.    *)
(***************************************************************************)
EXTENDS Integers, Sequences, FiniteSets, TLC

VARIABLES
    T,            \* the CircValType descriptor <<L, H, Z>> of the run
    val,          \* CircVal<T>::val of the circular value under test
    A,            \* the vector<pair<CircVal<T>,double>> handed to the statistics
    call,         \* which function returned last ("none" before)
    ret,          \* what it returned: the set<CircVal<T>> of a statistics function,
                  \* the double of Sdist, Pdist or ToR, the two values a test compares
    m_nSamples,   \* CAvrgSampledCircSignal::m_nSamples
    m_PrevC,      \* CAvrgSampledCircSignal::m_PrevC
    m_fPrevTime,  \* CAvrgSampledCircSignal::m_fPrevTime
    m_Intervals,  \* CAvrgSampledCircSignal::m_Intervals
    Avrg,         \* the caller's CircVal<T> that GetAvrg writes
    got,          \* what the last GetAvrg returned: "true" or "false" ("none" before)
    aborted,      \* an assert has failed and ended the program
    args          \* the arguments of the last call of AddMeasurement or of a CircVal function

vars == <<T, val, A, call, ret, m_nSamples, m_PrevC, m_fPrevTime, m_Intervals, Avrg, got, aborted, args>>

(***************************************************************************)
(* Bounds of the model                                                     *)
(***************************************************************************)
\* number of equally spaced sample points taken on each circle
NumPts == 6
\* largest sample vector handed to a statistics function
MaxN == 3
\* largest vector of samples of unequal weights handed to WeightedCircAverage
MaxNW == 2
\* largest weight of a weighted sample
MaxW == 2
\* largest denominator of a stored circular value in the CircVal runs, and
\* largest numerator of a stored multiple of Eps
MaxDen == 4
\* reals handed to CircVal reach MaxQuarters quarter turns below and above L
MaxQuarters == 10
\* number of equally spaced values a measurement is drawn from
NumMeas == 4
\* largest sample vector handed to CircMedian alone
MaxNM == 4
\* timestamps are drawn from 0..MaxTime, so an averager accepts at most
\* MaxTime + 1 measurements
MaxTime == 2

(***************************************************************************)
(* double arithmetic                                                       *)
(*                                                                         *)
(* A double is <<n, d>>, the real n/d in lowest terms, or <<n, d, k>>, the *)
(* real (n/d) * Eps^k with n # 0 and k # 0, where Eps is a positive double *)
(* (2^-100, say) below half an ulp of every non-zero <<n, d>> of a run.    *)
(* Products, quotients and comparisons are exact.  A sum of two doubles of *)
(* the same k is exact; in a sum of two non-zero doubles of different k    *)
(* the smaller one is below half an ulp of the larger one, and the result  *)
(* rounds to the larger one.                                               *)
(***************************************************************************)
IAbs(i) == IF i < 0 THEN -i ELSE i

RECURSIVE GCD(_, _)
GCD(a, b) == IF b = 0 THEN a ELSE GCD(b, a % b)

\* n/d with the common factor g divided out and a positive denominator
Reduced(n, d, g) == IF d < 0 THEN <<(-n) \div g, (-d) \div g>> ELSE <<n \div g, d \div g>>

\* the real n/d, in lowest terms
Q(n, d) == Reduced(n, d, GCD(IAbs(n), IAbs(d)))

I(n) == <<n, 1>>

\* a double below half an ulp of every non-zero <<n, d>>
Eps == <<1, 1, 1>>

\* the power of Eps a double is scaled by
Ord(x) == IF Len(x) = 2 THEN 0 ELSE x[3]
\* the double c * Eps^k
Scaled(c, k) == IF k = 0 \/ c[1] = 0 THEN c ELSE <<c[1], c[2], k>>

\* n/d + n'/d', the operands reduced by the common factor g of d and d'
\* before they are multiplied
SumG(x, y, g) == Q(x[1] * (y[2] \div g) + y[1] * (x[2] \div g), (x[2] \div g) * y[2])
\* x + y for x scaled by Eps^kx and y by Eps^ky
SumK(x, y, kx, ky) ==
    IF kx = ky THEN Scaled(SumG(x, y, GCD(x[2], y[2])), kx)
    ELSE IF kx < ky THEN (IF x[1] = 0 THEN y ELSE x)
    ELSE (IF y[1] = 0 THEN x ELSE y)
\* (n/d) * (n'/d'), g1 the common factor of n and d', g2 of n' and d
ProdG(x, y, g1, g2) == Q((x[1] \div g1) * (y[1] \div g2), (x[2] \div g2) * (y[2] \div g1))
\* n/d < n'/d', g the common factor of d and d'
LessG(x, y, g) == x[1] * (y[2] \div g) < y[1] * (x[2] \div g)
\* x < y for x scaled by Eps^kx and y by Eps^ky
LessK(x, y, kx, ky) ==
    IF kx = ky THEN LessG(x, y, GCD(x[2], y[2]))
    ELSE IF kx < ky THEN (IF x[1] = 0 THEN y[1] > 0 ELSE x[1] < 0)
    ELSE (IF y[1] = 0 THEN x[1] < 0 ELSE y[1] > 0)

Add(x, y) == SumK(x, y, Ord(x), Ord(y))
Neg(x)    == [x EXCEPT ![1] = -x[1]]
Sub(x, y) == Add(x, Neg(y))
Mul(x, y) == Scaled(ProdG(x, y, GCD(IAbs(x[1]), y[2]), GCD(IAbs(y[1]), x[2])), Ord(x) + Ord(y))
\* 1/y, for y # 0
Recip(y)  == Scaled(Q(y[2], y[1]), -Ord(y))
Div(x, y) == Mul(x, Recip(y))
Lt(x, y)  == LessK(x, y, Ord(x), Ord(y))
Le(x, y)  == ~Lt(y, x)
Gt(x, y)  == Lt(y, x)
Ge(x, y)  == ~Lt(x, y)
Floor(x)  ==
    IF Len(x) = 2 THEN I(x[1] \div x[2])
    ELSE IF x[3] > 0 THEN (IF x[1] > 0 THEN I(0) ELSE I(-1))
    ELSE x
abs(x)    == IF x[1] < 0 THEN Neg(x) ELSE x

\* CircHelper.h
Sqr(x) == Mul(x, x)
Mod(x, y) == Sub(x, Mul(y, Floor(Div(x, y))))

(***************************************************************************)
(* CircValType                                                             *)
(***************************************************************************)
CircValType(l, h, z) ==
    [L |-> l, H |-> h, Z |-> z, R |-> Sub(h, l), R_2 |-> Div(Sub(h, l), I(2))]

R(Type)   == Type.R
R_2(Type) == Type.R_2

\* the static_asserts of CircValType
ValidType(Type) == Gt(Type.H, Type.L) /\ Ge(Type.Z, Type.L) /\ Lt(Type.Z, Type.H)

SignedDegRange   == CircValType(I(-180), I(180), I(0))
UnsignedDegRange == CircValType(I(0), I(360), I(0))
TestRange0       == CircValType(I(3), I(10), Q(53, 10))
TestRange1       == CircValType(I(-3), I(10), I(-3))
TestRange2       == CircValType(I(-3), I(10), Q(99, 10))
TestRange3       == CircValType(I(-13), I(-3), Q(-53, 10))

(***************************************************************************)
(* CircVal                                                                 *)
(***************************************************************************)
IsInRange(Type, r) == Ge(r, Type.L) /\ Lt(r, Type.H)

\* the general case of Wrap
WrapGeneral(Type, r) == Add(Mod(Sub(r, Type.L), Type.R), Type.L)

Wrap(Type, r) ==
    IF Ge(r, Type.L)
    THEN IF Lt(r, Type.H) THEN r
         ELSE IF Lt(r, Add(Type.H, Type.R)) THEN Sub(r, Type.R)
         ELSE WrapGeneral(Type, r)
    ELSE IF Ge(r, Sub(Type.L, Type.R)) THEN Add(r, Type.R)
         ELSE WrapGeneral(Type, r)

\* SdistOf with d = R/2 left as it is
SdistOfOpen(Type, d) ==
    IF Lt(d, Neg(Type.R_2)) THEN Add(d, Type.R)
    ELSE IF Gt(d, Type.R_2) THEN Sub(d, Type.R)
    ELSE d

\* Sdist for d = c2.val - c1.val
SdistOf(Type, d) ==
    IF Lt(d, Neg(Type.R_2)) THEN Add(d, Type.R)
    ELSE IF Ge(d, Type.R_2) THEN Sub(d, Type.R)
    ELSE d

Sdist(Type, c1, c2) == SdistOf(Type, Sub(c2, c1))

Pdist(Type, c1, c2) ==
    IF Ge(c2, c1) THEN Sub(c2, c1) ELSE Add(Sub(Type.R, c1), c2)

\* CircVal()
CircValDefault(Type) == Type.Z

\* CircVal(double r), operator=(double r)
CircValOf(Type, r) == Wrap(Type, r)

\* CircValFrom with Pdist taken from L instead of Z
CircValFromL(Type, Type2, c) ==
    Wrap(Type, Add(Div(Mul(Pdist(Type2, CircValOf(Type2, Type2.L), c), Type.R), Type2.R), Type.Z))

\* CircVal(const CircVal<Type2>& c)
CircValFrom(Type, Type2, c) ==
    Wrap(Type, Add(Div(Mul(Pdist(Type2, CircValOf(Type2, Type2.Z), c), Type.R), Type2.R), Type.Z))

\* operator=(const CircVal<Type2>& c)
AssignFrom(Type, Type2, c) ==
    Wrap(Type, Add(Div(Mul(Pdist(Type2, CircValOf(Type2, Type2.Z), c), Type.R), Type2.R), Type.Z))

\* CircVal<Type>(c) for c of Type2: the copy constructor when the types are the same
Convert(Type, Type2, c) == IF Type = Type2 THEN c ELSE CircValFrom(Type, Type2, c)

ToR(Type, c) == Sub(c, Type.Z)
\* ToC without the zero point
ToCNoZ(Type, r) == CircValOf(Type, Wrap(Type, r))

\* the double Wrap(r + Z) that ToC returns is made a CircVal by CircVal(double)
ToC(Type, r) == CircValOf(Type, Wrap(Type, Add(r, Type.Z)))

Negate(Type, c)   == CircValOf(Type, Wrap(Type, Sub(Type.Z, Sdist(Type, CircValOf(Type, Type.Z), CircValOf(Type, c)))))
Opposite(Type, c) == CircValOf(Type, Wrap(Type, Add(c, Type.R_2)))
\* CAdd without the zero point
CAddNoZ(Type, c1, c2) == CircValOf(Type, Wrap(Type, Add(c1, c2)))
CAdd(Type, c1, c2) == CircValOf(Type, Wrap(Type, Sub(Add(c1, c2), Type.Z)))
CSub(Type, c1, c2) == CircValOf(Type, Wrap(Type, Add(Sub(c1, c2), Type.Z)))
CMul(Type, c, r)   == CircValOf(Type, Wrap(Type, Add(Mul(Sub(c, Type.Z), r), Type.Z)))
CDiv(Type, c, r)   == CircValOf(Type, Wrap(Type, Add(Div(Sub(c, Type.Z), r), Type.Z)))

(***************************************************************************)
(* helpers for vector, sort and set                                        *)
(***************************************************************************)
RECURSIVE SumTo(_, _)
\* s[1] + ... + s[k]
SumTo(s, k) == IF k = 0 THEN I(0) ELSE Add(SumTo(s, k - 1), s[k])

RECURSIVE Insert(_, _)
Insert(s, x) ==
    IF s = <<>> THEN <<x>>
    ELSE IF Lt(x, Head(s)) THEN <<x>> \o s
    ELSE <<Head(s)>> \o Insert(Tail(s), x)

RECURSIVE SortAsc(_)
\* sort(begin, end) of doubles, or of CircVal (operator< compares val)
SortAsc(s) == IF s = <<>> THEN <<>> ELSE Insert(SortAsc(Tail(s)), Head(s))

Reverse(s) == [i \in 1..Len(s) |-> s[Len(s) + 1 - i]]

\* sort of pair<double,double>, by operator< of pair

RECURSIVE InsertPair(_, _)
InsertPair(s, x) ==
    IF s = <<>> THEN <<x>>
    ELSE IF Lt(x[1], Head(s)[1]) \/ (x[1] = Head(s)[1] /\ Lt(x[2], Head(s)[2])) THEN <<x>> \o s
    ELSE <<Head(s)>> \o InsertPair(Tail(s), x)

RECURSIVE SortPairsAsc(_)
SortPairsAsc(s) == IF s = <<>> THEN <<>> ELSE InsertPair(SortPairsAsc(Tail(s)), Head(s))

RECURSIVE Filter(_, _)
\* the elements of s on the side of 180 that 'lower' names, in the order of s
Filter(s, lower) ==
    IF s = <<>> THEN <<>>
    ELSE LET h == Head(s)
             keep == IF lower THEN Lt(h, I(180)) ELSE Gt(h, I(180))
         IN  (IF keep THEN <<h>> ELSE <<>>) \o Filter(Tail(s), lower)

RECURSIVE FilterPairs(_, _)
FilterPairs(s, lower) ==
    IF s = <<>> THEN <<>>
    ELSE LET h == Head(s)
             keep == IF lower THEN Lt(h[1], I(180)) ELSE Gt(h[1], I(180))
         IN  (IF keep THEN <<h>> ELSE <<>>) \o FilterPairs(Tail(s), lower)

\* iteration order of a set<CircVal<T>>: ascending val
SetToSeq(S) == SortAsc(CHOOSE s \in [1..Cardinality(S) -> S] : \A x \in S : \E i \in 1..Cardinality(S) : s[i] = x)

(***************************************************************************)
(* CircAverage                                                             *)
(***************************************************************************)
\* double v = CircVal<UnsignedDegRange>(a), for every a of the vector
ToDeg(Type, V) == [i \in 1..Len(V) |-> Convert(UnsignedDegRange, Type, V[i])]

\* set<CircVal<T>>::emplace(CircVal<UnsignedDegRange>(v))
FromDeg(Type, v) == Convert(Type, UnsignedDegRange, CircValOf(UnsignedDegRange, v))

\* fSumSqr after the accumulation loop over the angles v
SumSqrs(v) == SumTo([i \in 1..Len(v) |-> Sqr(v[i])], Len(v))

SumSqr(n, fSum, fSumSqr) ==
    Add(Sub(Mul(I(32400), I(n)), Mul(I(360), fSum)), fSumSqr)

SumSqrC(n, fSum, fSumSqr, x, nCountC, fSumC) ==
    Add(Sub(Add(Mul(x, Sub(Mul(I(n), x), Mul(I(2), fSum))), fSumSqr),
            Mul(I(2 * 360), fSumC)),
        Mul(I(nCountC), Add(Mul(I(2 * 360), x), I(360 * 360))))

\* SumSqrD with the sign of SumSqrC on the term 2*360*x
SumSqrDSign(n, fSum, fSumSqr, x, nCountD, fSumD) ==
    Add(Add(Add(Mul(x, Sub(Mul(I(n), x), Mul(I(2), fSum))), fSumSqr),
            Mul(I(2 * 360), fSumD)),
        Mul(I(nCountD), Add(Mul(I(2 * 360), x), I(360 * 360))))

SumSqrD(n, fSum, fSumSqr, x, nCountD, fSumD) ==
    Add(Add(Add(Mul(x, Sub(Mul(I(n), x), Mul(I(2), fSum))), fSumSqr),
            Mul(I(2 * 360), fSumD)),
        Mul(I(nCountD), Add(Mul(I(-2 * 360), x), I(360 * 360))))

\* TestSum without the branch that keeps a tie
TestSumNoTie(st, fTestAvrg, fTestSumDiffSqr) ==
    IF Lt(fTestSumDiffSqr, st.min)
    THEN [vals |-> <<fTestAvrg>>, min |-> fTestSumDiffSqr]
    ELSE st

\* st = [vals |-> MinAvrgVals, min |-> fMinSumSqrDiff]
TestSum(st, fTestAvrg, fTestSumDiffSqr) ==
    IF Lt(fTestSumDiffSqr, st.min)
    THEN [vals |-> <<fTestAvrg>>, min |-> fTestSumDiffSqr]
    ELSE IF fTestSumDiffSqr = st.min
    THEN [vals |-> Append(st.vals, fTestAvrg), min |-> st.min]
    ELSE st

\* the call of TestSum that the D loop makes in the sector
\* (fLowerBound+180, iter+180] if fTestAvrg is inside it
SectorD(n, fSum, fSumSqr, fLowerBound, iter, nCountD, fSumD, fTestAvrg) ==
    IF Gt(fTestAvrg, Add(fLowerBound, I(180))) /\ Le(fTestAvrg, Add(iter, I(180)))
    THEN <<[avrg |-> fTestAvrg, sum |-> SumSqrD(n, fSum, fSumSqr, fTestAvrg, nCountD, fSumD)]>>
    ELSE <<>>

RECURSIVE LoopD(_, _, _, _, _)
\* the calls of TestSum made by iterations 0 .. d-1 of the D loop, in order
LoopD(n, fSum, fSumSqr, LowerAngles, d) ==
    IF d = 0 THEN <<>>
    ELSE LoopD(n, fSum, fSumSqr, LowerAngles, d - 1) \o
         SectorD(n, fSum, fSumSqr,
                 IF d = 1 THEN I(0) ELSE LowerAngles[d - 1], LowerAngles[d],
                 d - 1, SumTo(LowerAngles, d - 1),
                 Div(Add(fSum, Mul(I(360), I(d - 1))), I(n)))

\* the call of TestSum after the D loop if fTestAvrg passes the test of the
\* last sector
SectorLastD(n, fSum, fSumSqr, fLowerBound, nCountD, fSumD, fTestAvrg) ==
    IF Lt(fTestAvrg, I(360)) /\ Gt(fTestAvrg, fLowerBound)
    THEN <<[avrg |-> fTestAvrg, sum |-> SumSqrD(n, fSum, fSumSqr, fTestAvrg, nCountD, fSumD)]>>
    ELSE <<>>

\* the call of TestSum made for the last D sector
LastD(n, fSum, fSumSqr, LowerAngles) ==
    SectorLastD(n, fSum, fSumSqr,
                IF Len(LowerAngles) = 0 THEN I(0) ELSE LowerAngles[Len(LowerAngles)],
                Len(LowerAngles), SumTo(LowerAngles, Len(LowerAngles)),
                Div(Add(fSum, Mul(I(360), I(Len(LowerAngles)))), I(n)))

\* the call of TestSum that the C loop makes in the sector
\* [iter-180, fUpperBound-180) if fTestAvrg is inside it
SectorC(n, fSum, fSumSqr, fUpperBound, iter, nCountC, fSumC, fTestAvrg) ==
    IF Ge(fTestAvrg, Sub(iter, I(180))) /\ Lt(fTestAvrg, Sub(fUpperBound, I(180)))
    THEN <<[avrg |-> fTestAvrg, sum |-> SumSqrC(n, fSum, fSumSqr, fTestAvrg, nCountC, fSumC)]>>
    ELSE <<>>

RECURSIVE LoopC(_, _, _, _, _)
\* the calls of TestSum made by iterations 0 .. c-1 of the C loop, in order
LoopC(n, fSum, fSumSqr, UpperAngles, c) ==
    IF c = 0 THEN <<>>
    ELSE LoopC(n, fSum, fSumSqr, UpperAngles, c - 1) \o
         SectorC(n, fSum, fSumSqr,
                 IF c = 1 THEN I(360) ELSE UpperAngles[c - 1], UpperAngles[c],
                 c - 1, SumTo(UpperAngles, c - 1),
                 Div(Sub(fSum, Mul(I(360), I(c - 1))), I(n)))

\* the call of TestSum after the C loop if fTestAvrg passes the test of the
\* last sector
SectorLastC(n, fSum, fSumSqr, fUpperBound, nCountC, fSumC, fTestAvrg) ==
    IF Ge(fTestAvrg, I(0)) /\ Lt(fTestAvrg, fUpperBound)
    THEN <<[avrg |-> fTestAvrg, sum |-> SumSqrC(n, fSum, fSumSqr, fTestAvrg, nCountC, fSumC)]>>
    ELSE <<>>

\* the call of TestSum made for the last C sector
LastC(n, fSum, fSumSqr, UpperAngles) ==
    SectorLastC(n, fSum, fSumSqr,
                IF Len(UpperAngles) = 0 THEN I(360) ELSE UpperAngles[Len(UpperAngles)],
                Len(UpperAngles), SumTo(UpperAngles, Len(UpperAngles)),
                Div(Sub(fSum, Mul(I(360), I(Len(UpperAngles)))), I(n)))

\* the calls of TestSum of the D sectors, then of the C sectors
SectorCalls(n, fSum, fSumSqr, LowerAngles, UpperAngles) ==
    LoopD(n, fSum, fSumSqr, LowerAngles, Len(LowerAngles))
    \o LastD(n, fSum, fSumSqr, LowerAngles)
    \o LoopC(n, fSum, fSumSqr, UpperAngles, Len(UpperAngles))
    \o LastC(n, fSum, fSumSqr, UpperAngles)

RECURSIVE FoldTestSum(_, _)
\* MinAvrgVals and fMinSumSqrDiff after the calls, starting from st
FoldTestSum(st, calls) ==
    IF calls = <<>> THEN st
    ELSE FoldTestSum(TestSum(st, Head(calls).avrg, Head(calls).sum), Tail(calls))

\* every call of TestSum that CircAverage makes on the angles v, in order
TestSumCalls(v) ==
    SectorCalls(Len(v), SumTo(v, Len(v)), SumSqrs(v),
                SortAsc(Filter(v, TRUE)), Reverse(SortAsc(Filter(v, FALSE))))

\* MinAvrgVals and fMinSumSqrDiff at the end of CircAverage on the angles v
CircAverageMin(v) ==
    FoldTestSum([vals |-> <<I(180)>>, min |-> SumSqr(Len(v), SumTo(v, Len(v)), SumSqrs(v))],
                TestSumCalls(v))

MinAvrgCircVals(Type, MinAvrgVals) ==
    {FromDeg(Type, MinAvrgVals[i]) : i \in 1..Len(MinAvrgVals)}

CircAverage(Type, V) == MinAvrgCircVals(Type, CircAverageMin(ToDeg(Type, V)).vals)

(***************************************************************************)
(* CircAverage2                                                            *)
(***************************************************************************)
\* the comparison of an iteration of the shift loop
ShiftStep(st, i, fTestSumDiffSqr) ==
    IF Lt(fTestSumDiffSqr, st.min)
    THEN [idx |-> <<i>>, min |-> fTestSumDiffSqr]
    ELSE IF fTestSumDiffSqr = st.min
    THEN [idx |-> Append(st.idx, i), min |-> st.min]
    ELSE st

RECURSIVE LoopShiftHalf(_, _, _, _, _)
\* LoopShift adding 360*Angles[i-1] instead of 720*Angles[i-1] to fSumSqr
LoopShiftHalf(Angles, fSum, fSumSqr0, count, i) ==
    IF i = 0 THEN [idx |-> <<0>>, min |-> Sub(fSumSqr0, Div(Sqr(fSum), I(count)))]
    ELSE ShiftStep(LoopShiftHalf(Angles, fSum, fSumSqr0, count, i - 1), i,
                   Sub(Add(Add(fSumSqr0, Mul(I(360), SumTo(Angles, i))),
                           Mul(I(360 * 360), I(i))),
                       Div(Sqr(Add(fSum, Mul(I(360), I(i)))), I(count))))

RECURSIVE LoopShift(_, _, _, _, _)
\* MinShiftIdx and fMinSumSqrDiff after the iterations 1 .. i of the loop;
\* fSumSqr is fSumSqr0 + 720*(Angles[0] + ... + Angles[i-1]) in iteration i
LoopShift(Angles, fSum, fSumSqr0, count, i) ==
    IF i = 0 THEN [idx |-> <<0>>, min |-> Sub(fSumSqr0, Div(Sqr(fSum), I(count)))]
    ELSE ShiftStep(LoopShift(Angles, fSum, fSumSqr0, count, i - 1), i,
                   Sub(Add(Add(fSumSqr0, Mul(I(720), SumTo(Angles, i))),
                           Mul(I(360 * 360), I(i))),
                       Div(Sqr(Add(fSum, Mul(I(360), I(i)))), I(count))))

\* the set returned for the shifts MinShiftIdx
ShiftAverages(Type, fSum, count, MinShiftIdx) ==
    {FromDeg(Type, Div(Add(fSum, Mul(I(360), I(MinShiftIdx[k]))), I(count))) :
        k \in 1..Len(MinShiftIdx)}

\* CircAverage2 on the angles Angles (unsorted)
CircAverage2Deg(Type, Angles) ==
    ShiftAverages(Type, SumTo(Angles, Len(Angles)), Len(Angles),
                  LoopShift(SortAsc(Angles), SumTo(Angles, Len(Angles)), SumSqrs(Angles),
                            Len(Angles), Len(Angles) - 1).idx)

CircAverage2(Type, V) == CircAverage2Deg(Type, ToDeg(Type, V))

(***************************************************************************)
(* WeightedCircAverage                                                     *)
(***************************************************************************)
\* <angle, weight> of every element of the vector, the angle in [0,360)
ToDegPairs(Type, P) ==
    [i \in 1..Len(P) |-> <<Convert(UnsignedDegRange, Type, P[i][1]), P[i][2]>>]

\* sum(Wi) of the first k pairs
RECURSIVE SumW(_, _)
SumW(s, k) == IF k = 0 THEN I(0) ELSE Add(SumW(s, k - 1), s[k][2])

\* sum(Wi*Ai) of the first k pairs
RECURSIVE SumWA(_, _)
SumWA(s, k) == IF k = 0 THEN I(0) ELSE Add(SumWA(s, k - 1), Mul(s[k][2], s[k][1]))

\* fASumWA2 after the accumulation loop over the first k pairs
LoopSumWA2(s, k) == IF k = 0 THEN I(0) ELSE Mul(Mul(s[k][2], s[k][1]), s[k][1])

WSumSqr(fASumW, fASumWA, fASumWA2) ==
    Add(Sub(Mul(I(32400), fASumW), Mul(I(360), fASumWA)), fASumWA2)

\* WSumSqrC with the sign of WSumSqrD on the term 720*x
WSumSqrCSign(fASumW, fASumWA, fASumWA2, x, fCSumW, fCSumWC) ==
    Add(Sub(Sub(Add(fASumWA2, Mul(Mul(x, x), fASumW)), Mul(Mul(I(2), x), fASumWA)),
            Mul(I(720), fCSumWC)),
        Mul(Sub(I(129600), Mul(I(720), x)), fCSumW))

WSumSqrC(fASumW, fASumWA, fASumWA2, x, fCSumW, fCSumWC) ==
    Add(Sub(Sub(Add(fASumWA2, Mul(Mul(x, x), fASumW)), Mul(Mul(I(2), x), fASumWA)),
            Mul(I(720), fCSumWC)),
        Mul(Add(I(129600), Mul(I(720), x)), fCSumW))

WSumSqrD(fASumW, fASumWA, fASumWA2, x, fDSumW, fDSumWD) ==
    Add(Add(Sub(Add(fASumWA2, Mul(Mul(x, x), fASumW)), Mul(Mul(I(2), x), fASumWA)),
            Mul(I(720), fDSumWD)),
        Mul(Sub(I(129600), Mul(I(720), x)), fDSumW))

\* TestSum of WeightedCircAverage without the branch that keeps a tie
WTestSumNoTie(Type, st, fTestAvrg, fTestSumDiffSqr) ==
    IF Lt(fTestSumDiffSqr, st.min)
    THEN [vals |-> {FromDeg(Type, fTestAvrg)}, min |-> fTestSumDiffSqr]
    ELSE st

\* st = [vals |-> MinAvrgVals (a set<CircVal<T>>), min |-> fMinSumSqrDiff]
WTestSum(Type, st, fTestAvrg, fTestSumDiffSqr) ==
    IF Lt(fTestSumDiffSqr, st.min)
    THEN [vals |-> {FromDeg(Type, fTestAvrg)}, min |-> fTestSumDiffSqr]
    ELSE IF fTestSumDiffSqr = st.min
    THEN [vals |-> st.vals \cup {FromDeg(Type, fTestAvrg)}, min |-> st.min]
    ELSE st

\* the call of TestSum that the D loop makes in the sector
\* (fLowerBound+180, iter+180] if fTestAvrg is inside it
WSectorD(fASumW, fASumWA, fASumWA2, fLowerBound, iter, fDSumW, fDSumWD, fTestAvrg) ==
    IF Gt(fTestAvrg, Add(fLowerBound, I(180))) /\ Le(fTestAvrg, Add(iter, I(180)))
    THEN <<[avrg |-> fTestAvrg,
            sum |-> WSumSqrD(fASumW, fASumWA, fASumWA2, fTestAvrg, fDSumW, fDSumWD)]>>
    ELSE <<>>

RECURSIVE WLoopD(_, _, _, _, _)
\* the calls of TestSum made by iterations 0 .. d-1 of the D loop, in order
WLoopD(fASumW, fASumWA, fASumWA2, LowerAngles, d) ==
    IF d = 0 THEN <<>>
    ELSE WLoopD(fASumW, fASumWA, fASumWA2, LowerAngles, d - 1) \o
         WSectorD(fASumW, fASumWA, fASumWA2,
                  IF d = 1 THEN I(0) ELSE LowerAngles[d - 1][1], LowerAngles[d][1],
                  SumW(LowerAngles, d - 1), SumWA(LowerAngles, d - 1),
                  Div(Add(fASumWA, Mul(I(360), SumW(LowerAngles, d - 1))), fASumW))

\* the call of TestSum after the D loop if fTestAvrg passes the test of the
\* last sector
WSectorLastD(fASumW, fASumWA, fASumWA2, fLowerBound, fDSumW, fDSumWD, fTestAvrg) ==
    IF Lt(fTestAvrg, I(360)) /\ Gt(fTestAvrg, fLowerBound)
    THEN <<[avrg |-> fTestAvrg,
            sum |-> WSumSqrD(fASumW, fASumWA, fASumWA2, fTestAvrg, fDSumW, fDSumWD)]>>
    ELSE <<>>

\* the call of TestSum made for the last D sector
WLastD(fASumW, fASumWA, fASumWA2, LowerAngles) ==
    WSectorLastD(fASumW, fASumWA, fASumWA2,
                 IF Len(LowerAngles) = 0 THEN I(0) ELSE LowerAngles[Len(LowerAngles)][1],
                 SumW(LowerAngles, Len(LowerAngles)), SumWA(LowerAngles, Len(LowerAngles)),
                 Div(Add(fASumWA, Mul(I(360), SumW(LowerAngles, Len(LowerAngles)))), fASumW))

\* the call of TestSum that the C loop makes in the sector
\* [iter-180, fUpperBound-180) if fTestAvrg is inside it
WSectorC(fASumW, fASumWA, fASumWA2, fUpperBound, iter, fCSumW, fCSumWC, fTestAvrg) ==
    IF Ge(fTestAvrg, Sub(iter, I(180))) /\ Lt(fTestAvrg, Sub(fUpperBound, I(180)))
    THEN <<[avrg |-> fTestAvrg,
            sum |-> WSumSqrC(fASumW, fASumWA, fASumWA2, fTestAvrg, fCSumW, fCSumWC)]>>
    ELSE <<>>

RECURSIVE WLoopC(_, _, _, _, _)
\* the calls of TestSum made by iterations 0 .. c-1 of the C loop, in order
WLoopC(fASumW, fASumWA, fASumWA2, UpperAngles, c) ==
    IF c = 0 THEN <<>>
    ELSE WLoopC(fASumW, fASumWA, fASumWA2, UpperAngles, c - 1) \o
         WSectorC(fASumW, fASumWA, fASumWA2,
                  IF c = 1 THEN I(360) ELSE UpperAngles[c - 1][1], UpperAngles[c][1],
                  SumW(UpperAngles, c - 1), SumWA(UpperAngles, c - 1),
                  Div(Sub(fASumWA, Mul(I(360), SumW(UpperAngles, c - 1))), fASumW))

\* the call of TestSum after the C loop if fTestAvrg passes the test of the
\* last sector
WSectorLastC(fASumW, fASumWA, fASumWA2, fUpperBound, fCSumW, fCSumWC, fTestAvrg) ==
    IF Ge(fTestAvrg, I(0)) /\ Lt(fTestAvrg, fUpperBound)
    THEN <<[avrg |-> fTestAvrg,
            sum |-> WSumSqrC(fASumW, fASumWA, fASumWA2, fTestAvrg, fCSumW, fCSumWC)]>>
    ELSE <<>>

\* the call of TestSum made for the last C sector
WLastC(fASumW, fASumWA, fASumWA2, UpperAngles) ==
    WSectorLastC(fASumW, fASumWA, fASumWA2,
                 IF Len(UpperAngles) = 0 THEN I(360) ELSE UpperAngles[Len(UpperAngles)][1],
                 SumW(UpperAngles, Len(UpperAngles)), SumWA(UpperAngles, Len(UpperAngles)),
                 Div(Sub(fASumWA, Mul(I(360), SumW(UpperAngles, Len(UpperAngles)))), fASumW))

\* the calls of TestSum of the D sectors, then of the C sectors
WSectorCalls(fASumW, fASumWA, fASumWA2, LowerAngles, UpperAngles) ==
    WLoopD(fASumW, fASumWA, fASumWA2, LowerAngles, Len(LowerAngles))
    \o WLastD(fASumW, fASumWA, fASumWA2, LowerAngles)
    \o WLoopC(fASumW, fASumWA, fASumWA2, UpperAngles, Len(UpperAngles))
    \o WLastC(fASumW, fASumWA, fASumWA2, UpperAngles)

RECURSIVE WFoldTestSum(_, _, _)
WFoldTestSum(Type, st, calls) ==
    IF calls = <<>> THEN st
    ELSE WFoldTestSum(Type, WTestSum(Type, st, Head(calls).avrg, Head(calls).sum), Tail(calls))

\* MinAvrgVals and fMinSumSqrDiff at the end of WeightedCircAverage on the
\* pairs a of <angle, weight>
WeightedCircAverageMin(Type, a) ==
    WFoldTestSum(Type,
                 [vals |-> {FromDeg(Type, I(180))},
                  min |-> WSumSqr(SumW(a, Len(a)), SumWA(a, Len(a)), LoopSumWA2(a, Len(a)))],
                 WSectorCalls(SumW(a, Len(a)), SumWA(a, Len(a)), LoopSumWA2(a, Len(a)),
                              SortPairsAsc(FilterPairs(a, TRUE)),
                              Reverse(SortPairsAsc(FilterPairs(a, FALSE)))))

WeightedCircAverage(Type, P) == WeightedCircAverageMin(Type, ToDegPairs(Type, P)).vals

(***************************************************************************)
(* CircMedian                                                              *)
(***************************************************************************)
\* numeric_limits<double>::max(): above every sum the model can form
DBL_MAX == <<1, 0>>

\* PairCandidates without the second bisector
PairCandidatesOne(Type, Sm, Sn, d) ==
    {CircValOf(Type, Add(Sm, Div(d, I(2))))}

\* the candidates that the pair S[m], S[n] of distance d = Sdist(S[m], S[n]) adds
PairCandidates(Type, Sm, Sn, d) ==
    {CircValOf(Type, Add(Sm, Div(d, I(2))))} \cup
    (IF d = Div(Neg(Type.R), I(2))
     THEN {CircValOf(Type, Add(Sn, Div(d, I(2))))}
     ELSE {})

\* the candidate set B of an even-sized vector sorted as S
SortedCandidates(Type, S) ==
    UNION {PairCandidates(Type, S[m], S[(m % Len(S)) + 1],
                          Sdist(Type, S[m], S[(m % Len(S)) + 1])) : m \in 1..Len(S)}

\* the candidate set B
Candidates(Type, V) ==
    IF Len(V) % 2 = 0 THEN SortedCandidates(Type, SortAsc(V))
    ELSE {V[m] : m \in 1..Len(V)}

\* SumAbsDist without abs
SumAbsDistSigned(Type, b, V) ==
    SumTo([i \in 1..Len(V) |-> Sdist(Type, b, V[i])], Len(V))

\* sum(|Sdist(b, a)|) over the vector
SumAbsDist(Type, b, V) ==
    SumTo([i \in 1..Len(V) |-> abs(Sdist(Type, b, V[i]))], Len(V))

\* the comparison of the sum fSum of the candidate b with fMinSum
MedianStep(st, b, fSum) ==
    IF fSum = st.fMinSum THEN [X |-> st.X \cup {b}, fMinSum |-> st.fMinSum]
    ELSE IF Lt(fSum, st.fMinSum) THEN [X |-> {b}, fMinSum |-> fSum]
    ELSE st

RECURSIVE LoopMedianZero(_, _, _, _)
\* LoopMedian with fMinSum starting at 0
LoopMedianZero(Type, V, B, k) ==
    IF k = 0 THEN [X |-> {}, fMinSum |-> I(0)]
    ELSE MedianStep(LoopMedianZero(Type, V, B, k - 1), B[k], SumAbsDist(Type, B[k], V))

RECURSIVE LoopMedian(_, _, _, _)
\* X and fMinSum after the candidates B[1..k], st = [X |-> , fMinSum |-> ]
LoopMedian(Type, V, B, k) ==
    IF k = 0 THEN [X |-> {}, fMinSum |-> DBL_MAX]
    ELSE MedianStep(LoopMedian(Type, V, B, k - 1), B[k], SumAbsDist(Type, B[k], V))

\* the set X of the candidates B, in the iteration order of the set B
MedianOf(Type, V, B) == LoopMedian(Type, V, B, Len(B)).X

CircMedian(Type, V) == MedianOf(Type, V, SetToSeq(Candidates(Type, V)))

(***************************************************************************)
(* CAvrgSampledCircSignal                                                  *)
(***************************************************************************)
\* *s.rbegin() of a set<CircVal<T>>
RBegin(S) == CHOOSE x \in S : \A y \in S : Ge(x, y)

\* *s.begin() of a set<CircVal<T>>
Begin(S) == CHOOSE x \in S : \A y \in S : Le(x, y)

\* the condition AddMeasurement asserts, accepting an equal timestamp
InOrderOrEqual(fTime, prevTime) == Ge(fTime, prevTime)

\* the condition AddMeasurement asserts of fTime on the second and later call
InOrder(fTime, prevTime) == Gt(fTime, prevTime)

\* NewInterval with the whole signed distance added to the previous value
NewIntervalWhole(Type, prevC, prevTime, C, fTime) ==
    <<CircValOf(Type, Wrap(Type, Add(prevC, Sdist(Type, prevC, C)))),
      Sub(fTime, prevTime)>>

\* the interval that AddMeasurement(C, fTime) records
NewInterval(Type, prevC, prevTime, C, fTime) ==
    <<CircValOf(Type, Wrap(Type, Add(prevC, Div(Sdist(Type, prevC, C), I(2))))),
      Sub(fTime, prevTime)>>

\* GetAvrg with case 1 falling through to case 0
GetAvrgResultFallThrough(Type, nSamples, prevC, intervals) ==
    IF nSamples = 0 \/ nSamples = 1 THEN <<CircValOf(Type, Type.Z), FALSE>>
    ELSE <<Begin(WeightedCircAverage(Type, intervals)), TRUE>>

\* <<Avrg, return value>> of GetAvrg
GetAvrgResult(Type, nSamples, prevC, intervals) ==
    IF nSamples = 0 THEN <<CircValOf(Type, Type.Z), FALSE>>
    ELSE IF nSamples = 1 THEN <<prevC, TRUE>>
    ELSE <<Begin(WeightedCircAverage(Type, intervals)), TRUE>>

(***************************************************************************)
(* Inputs                                                                  *)
(***************************************************************************)
\* NumPts equally spaced values of the circle, starting at L
Points(Type) == {Add(Type.L, Mul(Q(j, NumPts), R(Type))) : j \in 0..(NumPts - 1)}

\* NumMeas equally spaced values of the circle, starting at L
MeasPoints(Type) == {Add(Type.L, Mul(Q(j, NumMeas), R(Type))) : j \in 0..(NumMeas - 1)}

\* reals below, in and above the range, the boundaries of Wrap's branches and
\* the least magnitudes on both sides of 0 included
Reals(Type) ==
    {Add(Type.L, Mul(Q(k, 4), R(Type))) : k \in (-MaxQuarters)..MaxQuarters}
        \cup {Type.Z, I(0), Eps, Neg(Eps)}

\* the circular values the tests draw c1, c2 and c3 from: the points, the
\* zero point, the value half a turn above L, and the least magnitudes on
\* both sides of 0 where the range holds them
Operands(Type) ==
    Points(Type) \cup {Type.Z, Add(Type.L, Type.R_2)}
        \cup {v \in {Eps, Neg(Eps)} : IsInRange(Type, v)}

Scalars == {I(-3), I(-1), Q(-1, 2), Q(1, 2), I(2), I(3)}

Weights == {Q(k, 2) : k \in 1..MaxW}

Times == {I(t) : t \in 0..MaxTime}

ValTypes == {UnsignedDegRange, SignedDegRange, TestRange0, TestRange1, TestRange2, TestRange3}

StatTypes == {UnsignedDegRange, TestRange0}

SigTypes == {TestRange0}

\* the CircVal of each element of a vector of pairs
Vals(P) == [i \in 1..Len(P) |-> P[i][1]]

(***************************************************************************)
(* CircVal operations on one value                                         *)
(***************************************************************************)
InitVal ==
    /\ T \in ValTypes
    /\ val = CircValDefault(T)
    /\ A = <<>> /\ call = "none" /\ ret = {}
    /\ m_nSamples = 0 /\ m_PrevC = CircValDefault(T) /\ m_fPrevTime = I(0) /\ m_Intervals = <<>>
    /\ Avrg = CircValDefault(T) /\ got = "none" /\ aborted = FALSE /\ args = <<>>

\* the step of a CircVal run that stores v, the result of the function
\* 'name' called with the arguments 'operands'
Put(name, operands, v) ==
    /\ val' = v /\ call' = name /\ args' = operands
    /\ UNCHANGED <<T, A, ret, m_nSamples, m_PrevC, m_fPrevTime, m_Intervals, Avrg, got, aborted>>

\* Put for the results that the run goes on with
Store(name, operands, v) ==
    /\ v[2] <= MaxDen /\ (Len(v) = 3 => IAbs(v[1]) <= MaxDen)
    /\ Put(name, operands, v)

ConstructDefault == Store("CircVal()", <<>>, CircValDefault(T))
ConstructFromReal == \E r \in Reals(T) : Store("CircVal(double)", <<r>>, CircValOf(T, r))
AssignFromReal == \E r \in Reals(T) : Store("operator=(double)", <<r>>, CircValOf(T, r))
ConstructFromOther ==
    \E T2 \in ValTypes \ {T} : \E c \in Points(T2) \cup {T2.Z} :
        Put("CircVal(CircVal<Type2>)", <<T2, c>>, CircValFrom(T, T2, c))
AssignFromOther ==
    \E T2 \in ValTypes \ {T} : \E c \in Points(T2) \cup {T2.Z} :
        Put("operator=(CircVal<Type2>)", <<T2, c>>, AssignFrom(T, T2, c))
CopyAssign == \E c \in Points(T) : Store("operator=", <<>>, c)
UnaryPlus == Store("operator", <<>>, CircValOf(T, val))
UnaryMinus == Store("operator", <<>>, Negate(T, val))
UnaryTilde == Store("operator", <<>>, Opposite(T, val))
BinaryPlus == \E c \in Points(T) : Store("operator", <<>>, CAdd(T, val, c))
BinaryMinus == \E c \in Points(T) : Store("operator", <<>>, CSub(T, val, c))
Times_ == \E r \in Scalars \cup {I(0)} : Store("operator", <<>>, CMul(T, val, r))
Divide == \E r \in Scalars : Store("operator", <<>>, CDiv(T, val, r))
PlusAssign == \E c \in Points(T) : Store("operator", <<>>, Wrap(T, Sub(Add(val, c), T.Z)))
MinusAssign == \E c \in Points(T) : Store("operator", <<>>, Wrap(T, Add(Sub(val, c), T.Z)))
TimesAssign == \E r \in Scalars \cup {I(0)} : Store("operator", <<>>, Wrap(T, Add(Mul(Sub(val, T.Z), r), T.Z)))
DivideAssign == \E r \in Scalars : Store("operator", <<>>, Wrap(T, Add(Div(Sub(val, T.Z), r), T.Z)))

NextVal ==
    \/ ConstructDefault \/ ConstructFromReal \/ AssignFromReal
    \/ ConstructFromOther \/ AssignFromOther \/ CopyAssign
    \/ UnaryPlus \/ UnaryMinus \/ UnaryTilde
    \/ BinaryPlus \/ BinaryMinus \/ Times_ \/ Divide
    \/ PlusAssign \/ MinusAssign \/ TimesAssign \/ DivideAssign

SpecVal == InitVal /\ [][NextVal]_vars

(***************************************************************************)
(* CircValTester: functions of CircVal applied to random values            *)
(***************************************************************************)
\* c1, c2 and c3 of one iteration of the loop of Test
InitTest ==
    /\ T \in ValTypes
    /\ args \in Operands(T) \X Operands(T) \X Operands(T)
    /\ val = CircValDefault(T)
    /\ A = <<>> /\ call = "none" /\ ret = {}
    /\ m_nSamples = 0 /\ m_PrevC = CircValDefault(T) /\ m_fPrevTime = I(0) /\ m_Intervals = <<>>
    /\ Avrg = CircValDefault(T) /\ got = "none" /\ aborted = FALSE

\* the function 'name' is applied to the values and returns 'result'
Apply(name, result) ==
    /\ call = "none"
    /\ call' = name /\ ret' = result
    /\ UNCHANGED <<T, val, A, m_nSamples, m_PrevC, m_fPrevTime, m_Intervals, Avrg, got, aborted, args>>

CallSdist == Apply("Sdist", Sdist(T, args[1], args[2]))
CallPdist == Apply("Pdist", Pdist(T, args[1], args[2]))
CallToR == Apply("ToR", ToR(T, args[1]))

\* the two values that a line of Test compares
Compare(name, c, d) == Apply(name, <<c, d>>)

\* c1+c2 = c2+c1
TestCommutative ==
    Compare("c1+c2 = c2+c1", CAdd(T, args[1], args[2]), CAdd(T, args[2], args[1]))
\* c1+(c2+c3) = (c1+c2)+c3
TestAssociative ==
    Compare("c1+(c2+c3) = (c1+c2)+c3",
            CAdd(T, args[1], CAdd(T, args[2], args[3])), CAdd(T, CAdd(T, args[1], args[2]), args[3]))
\* c+(-c) = z
TestInverse ==
    Compare("c+(-c) = z", CAdd(T, args[1], Negate(T, args[1])), CircValOf(T, T.Z))
\* c+z = c
TestIdentity ==
    Compare("c+z = c", CAdd(T, args[1], CircValOf(T, T.Z)), args[1])
\* c-c = z
TestMinusSelf ==
    Compare("c-c = z", CSub(T, args[1], args[1]), CircValOf(T, T.Z))
\* c1-c2 = -(c2-c1)
TestMinusSwapped ==
    Compare("c1-c2 = -(c2-c1)", CSub(T, args[1], args[2]), Negate(T, CSub(T, args[2], args[1])))
\* c1 = ToC(ToR(c1))
TestRoundTrip ==
    Compare("c1 = ToC(ToR(c1))", args[1], ToC(T, ToR(T, args[1])))
\* -c1 = ToC(ToR(-c1))
TestRoundTripMinus ==
    Compare("-c1 = ToC(ToR(-c1))", Negate(T, args[1]), ToC(T, ToR(T, Negate(T, args[1]))))
\* c1+c2 = ToC(ToR(c1)+ToR(c2))
TestRoundTripSum ==
    Compare("c1+c2 = ToC(ToR(c1)+ToR(c2))",
            CAdd(T, args[1], args[2]), ToC(T, Add(ToR(T, args[1]), ToR(T, args[2]))))
\* c1-c2 = ToC(ToR(c1)-ToR(c2))
TestRoundTripDifference ==
    Compare("c1-c2 = ToC(ToR(c1)-ToR(c2))",
            CSub(T, args[1], args[2]), ToC(T, Sub(ToR(T, args[1]), ToR(T, args[2]))))

NextTest ==
    \/ CallSdist \/ CallPdist \/ CallToR
    \/ TestCommutative \/ TestAssociative \/ TestInverse \/ TestIdentity
    \/ TestMinusSelf \/ TestMinusSwapped
    \/ TestRoundTrip \/ TestRoundTripMinus \/ TestRoundTripSum \/ TestRoundTripDifference

SpecTest == InitTest /\ [][NextTest]_vars

(***************************************************************************)
(* The statistics functions applied to a vector                            *)
(***************************************************************************)
InitStat ==
    /\ T \in StatTypes
    /\ val = CircValDefault(T)
    /\ A = <<>> /\ call = "none" /\ ret = {}
    /\ m_nSamples = 0 /\ m_PrevC = CircValDefault(T) /\ m_fPrevTime = I(0) /\ m_Intervals = <<>>
    /\ Avrg = CircValDefault(T) /\ got = "none" /\ aborted = FALSE /\ args = <<>>

\* A.emplace_back(c, 1)
PushBackValue ==
    /\ call = "none" /\ Len(A) < MaxN
    /\ \E c \in Points(T) : A' = Append(A, <<c, I(1)>>)
    /\ UNCHANGED <<T, val, call, ret, m_nSamples, m_PrevC, m_fPrevTime, m_Intervals, Avrg, got, aborted, args>>

\* A.emplace_back(c, w)
PushBack ==
    /\ call = "none" /\ Len(A) < MaxNW
    /\ \E c \in Points(T) : \E w \in Weights : A' = Append(A, <<c, w>>)
    /\ UNCHANGED <<T, val, call, ret, m_nSamples, m_PrevC, m_fPrevTime, m_Intervals, Avrg, got, aborted, args>>

\* one of the statistics functions is applied to the vector and returns
Return(name, result) ==
    /\ call = "none" /\ A # <<>>
    /\ call' = name /\ ret' = result
    /\ UNCHANGED <<T, val, A, m_nSamples, m_PrevC, m_fPrevTime, m_Intervals, Avrg, got, aborted, args>>

CallCircAverage == Return("CircAverage", CircAverage(T, Vals(A)))
CallCircAverage2 == Return("CircAverage2", CircAverage2(T, Vals(A)))
CallWeightedCircAverage == Return("WeightedCircAverage", WeightedCircAverage(T, A))
CallCircMedian == Return("CircMedian", CircMedian(T, Vals(A)))

\* WeightedCircAverage is applied to the samples, each given the weight w
CallWeightedEqual ==
    /\ call = "none" /\ A # <<>>
    /\ \E w \in Weights :
          /\ A' = [i \in 1..Len(A) |-> <<A[i][1], w>>]
          /\ ret' = WeightedCircAverage(T, A')
    /\ call' = "WeightedCircAverage"
    /\ UNCHANGED <<T, val, m_nSamples, m_PrevC, m_fPrevTime, m_Intervals, Avrg, got, aborted, args>>

NextStat ==
    \/ PushBackValue
    \/ CallCircAverage \/ CallCircAverage2 \/ CallWeightedEqual \/ CallCircMedian

SpecStat == InitStat /\ [][NextStat]_vars

\* A.emplace_back(c) of a vector handed to CircMedian
PushBackSample ==
    /\ call = "none" /\ Len(A) < MaxNM
    /\ \E c \in Points(T) : A' = Append(A, <<c, I(1)>>)
    /\ UNCHANGED <<T, val, call, ret, m_nSamples, m_PrevC, m_fPrevTime, m_Intervals, Avrg, got, aborted, args>>

NextMedian == PushBackSample \/ CallCircMedian

SpecMedian == InitStat /\ [][NextMedian]_vars

NextWeighted == PushBack \/ CallWeightedCircAverage

SpecWeighted == InitStat /\ [][NextWeighted]_vars

(***************************************************************************)
(* The averager                                                            *)
(***************************************************************************)
Init ==
    /\ T \in SigTypes
    /\ val = CircValDefault(T)
    /\ A = <<>> /\ call = "none" /\ ret = {}
    /\ m_nSamples = 0
    /\ m_PrevC = CircValDefault(T)
    /\ m_fPrevTime \in Times             \* not initialised by the constructor
    /\ m_Intervals = <<>>
    /\ Avrg = CircValDefault(T) /\ got = "none" /\ aborted = FALSE /\ args = <<>>

AddMeasurement ==
    /\ ~aborted
    /\ \E C \in MeasPoints(T) : \E fTime \in Times :
          /\ args' = <<C, fTime>>
          /\ IF m_nSamples # 0 /\ ~InOrder(fTime, m_fPrevTime)
             THEN /\ aborted' = TRUE
                  /\ UNCHANGED <<m_nSamples, m_PrevC, m_fPrevTime, m_Intervals>>
             ELSE /\ m_Intervals' = IF m_nSamples # 0
                                    THEN Append(m_Intervals, NewInterval(T, m_PrevC, m_fPrevTime, C, fTime))
                                    ELSE m_Intervals
                  /\ m_PrevC' = C
                  /\ m_fPrevTime' = fTime
                  /\ m_nSamples' = m_nSamples + 1
                  /\ UNCHANGED aborted
    /\ UNCHANGED <<T, val, A, call, ret, Avrg, got>>

\* GetAvrg emptying m_Intervals once the average is taken
GetAvrgClearing ==
    /\ ~aborted
    /\ m_Intervals' = <<>>
    /\ UNCHANGED <<T, val, A, call, ret, m_nSamples, m_PrevC, m_fPrevTime, aborted, args>>
    /\ LET result == GetAvrgResult(T, m_nSamples, m_PrevC, m_Intervals)
       IN  /\ Avrg' = result[1]
           /\ got' = IF result[2] THEN "true" ELSE "false"

GetAvrg ==
    /\ ~aborted
    /\ UNCHANGED <<T, val, A, call, ret, m_nSamples, m_PrevC, m_fPrevTime, m_Intervals, aborted, args>>
    /\ LET result == GetAvrgResult(T, m_nSamples, m_PrevC, m_Intervals)
       IN  /\ Avrg' = result[1]
           /\ got' = IF result[2] THEN "true" ELSE "false"

Next == AddMeasurement \/ GetAvrg

Spec == Init /\ [][Next]_vars

(***************************************************************************)
(* What the claims are stated with                                         *)
(*                                                                         *)
(* The minimum over the circle is taken over n = k*NumPts points           *)
(* L + i*R/n, i in 0..n-1, with distances counted in steps of R/n.  The    *)
(* samples lie on the points of k = 1.  Between two antipodes of samples   *)
(* the objective of the mean is one parabola, whose vertex                 *)
(* (sum of w*v + e*R)/(sum of w) lies on the points of k = sum of w (in    *)
(* units of the least weight), and a minimum is never at an antipode; the  *)
(* objective of the median is linear between the points of k = 2.  So the  *)
(* minimum over these points is the minimum over the circle.               *)
(***************************************************************************)
\* the point of index i among n
GridPoint(Type, n, i) == Add(Type.L, Mul(Q(i, n), R(Type)))

\* the index among n points of the value a, -1 if a is none of them
GridIndex(Type, n, a) ==
    LET q == Div(Mul(Sub(a, Type.L), I(n)), R(Type))
    IN  IF q[2] = 1 /\ q[1] >= 0 /\ q[1] < n THEN q[1] ELSE -1

\* the length in steps of the shortest walk between the points i and j
GridDist(n, i, j) == LET d == (j - i) % n IN IF 2 * d >= n THEN n - d ELSE d

RECURSIVE GridSamples(_, _, _, _)
\* <<index among n points, weight in halves>> of the first m samples of P
GridSamples(Type, n, P, m) ==
    IF m = 0 THEN <<>>
    ELSE Append(GridSamples(Type, n, P, m - 1),
                <<GridIndex(Type, n, P[m][1]), Mul(P[m][2], I(2))[1]>>)

RECURSIVE GridSum(_, _, _, _, _)
\* Sum over the first m samples of weight * steps^2 (or weight * steps) to the point i
GridSum(n, i, smp, squared, m) ==
    IF m = 0 THEN 0
    ELSE LET d == GridDist(n, i, smp[m][1])
         IN  GridSum(n, i, smp, squared, m - 1)
             + smp[m][2] * (IF squared THEN d * d ELSE d)

\* the pairs <<i, objective at the point i, in steps>> of all n points
GridObjective(Type, n, P, squared) ==
    LET smp == GridSamples(Type, n, P, Len(P))
    IN  {<<i, GridSum(n, i, smp, squared, Len(P))>> : i \in 0..(n - 1)}

\* the least objective among the pairs
LeastOf(obj) == CHOOSE m \in {p[2] : p \in obj} : \A p \in obj : m <= p[2]

\* every sample is one of the n points
OnGrid(Type, n, P) == \A j \in 1..Len(P) : GridIndex(Type, n, P[j][1]) >= 0

\* a weighted sum of squared steps of R/n, the weights in halves, as a real
SquaredSteps(Type, n, v) == Mul(Q(v, 2), Sqr(Div(R(Type), I(n))))

\* a weighted sum of steps of R/n, the weights in halves, as a real
Steps(Type, n, v) == Mul(Q(v, 2), Div(R(Type), I(n)))

\* Sum_i w_i * Sdist(x, v_i)^2
WSumSqDist(Type, x, P) ==
    SumTo([i \in 1..Len(P) |-> Mul(P[i][2], Sqr(Sdist(Type, x, P[i][1])))], Len(P))

\* Sum_i w_i * |Sdist(x, v_i)|
WSumAbsDist(Type, x, P) ==
    SumTo([i \in 1..Len(P) |->
              LET d == Sdist(Type, x, P[i][1])
              IN  Mul(P[i][2], IF Lt(d, I(0)) THEN Neg(d) ELSE d)], Len(P))

\* the sum of the weights of P, in units of the least weight 1/2
WeightUnits(P) == Mul(SumW(P, Len(P)), I(2))[1]

\* the samples of A, each of weight 1
Unweighted(P) == [i \in 1..Len(P) |-> <<P[i][1], I(1)>>]

\* C1: in every state of a run of CircVal operations on a valid descriptor,
\* the stored value satisfies L <= val < H.
RangeInvariant == ValidType(T) /\ Le(T.L, val) /\ Lt(val, T.H)

\* C2: every member of CircAverage(A) attains the minimum over the circle of
\* the sum of squared signed distances to the samples.
MeanMinimality ==
    call = "CircAverage" =>
        LET n == Len(A) * NumPts
            obj == GridObjective(T, n, Unweighted(A), TRUE)
        IN  /\ OnGrid(T, n, A)
            /\ \A x \in ret :
                  WSumSqDist(T, x, Unweighted(A)) = SquaredSteps(T, n, LeastOf(obj))

\* CircAverage has returned a mean of three samples that is none of them
MeanMinimalityWitness ==
    /\ call = "CircAverage" /\ Len(A) = 3
    /\ \E x \in ret : \A i \in 1..3 : x # A[i][1]

\* C3: every point of the circle that attains the minimum of the sum of
\* squared signed distances is a member of CircAverage(A).
MeanTieCompleteness ==
    call = "CircAverage" =>
        LET n == Len(A) * NumPts
            obj == GridObjective(T, n, Unweighted(A), TRUE)
        IN  /\ OnGrid(T, n, A)
            /\ \A p \in obj : p[2] = LeastOf(obj) => GridPoint(T, n, p[1]) \in ret

\* CircAverage has returned the two means of two antipodal samples
MeanTieWitness ==
    /\ call = "CircAverage" /\ Len(A) = 2
    /\ Sdist(T, A[1][1], A[2][1]) = Neg(R_2(T))
    /\ Cardinality(ret) = 2

\* C4: every member of CircMedian(A) attains the minimum over the circle of
\* the sum of absolute signed distances to the samples.
MedianMinimality ==
    call = "CircMedian" =>
        LET n == 2 * NumPts
            obj == GridObjective(T, n, Unweighted(A), FALSE)
        IN  /\ OnGrid(T, n, A)
            /\ \A x \in ret :
                  WSumAbsDist(T, x, Unweighted(A)) = Steps(T, n, LeastOf(obj))

\* CircMedian has returned a median of two distinct samples
MedianMinimalityEvenWitness ==
    call = "CircMedian" /\ Len(A) = 2 /\ A[1][1] # A[2][1] /\ ret # {}

\* C5: every member of WeightedCircAverage(A), all weights positive, attains
\* the minimum over the circle of the weighted sum of squared distances.
WeightedMeanMinimality ==
    call = "WeightedCircAverage" =>
        LET n == WeightUnits(A) * NumPts
            obj == GridObjective(T, n, A, TRUE)
        IN  /\ OnGrid(T, n, A)
            /\ \A j \in 1..Len(A) : Gt(A[j][2], I(0))
            /\ \A x \in ret : WSumSqDist(T, x, A) = SquaredSteps(T, n, LeastOf(obj))

\* WeightedCircAverage has returned a mean of two samples of unequal weights
\* that is neither of them
WeightedMeanWitness ==
    /\ call = "WeightedCircAverage" /\ Len(A) = 2
    /\ A[1][2] # A[2][2]
    /\ \E x \in ret : x # A[1][1] /\ x # A[2][1]

\* C6: WeightedCircAverage of samples that all carry the same weight returns
\* the set that CircAverage returns on the samples.
WeightedReducesToUnweighted ==
    (call = "WeightedCircAverage" /\ \A i \in 1..Len(A) : A[i][2] = A[1][2]) =>
        ret = CircAverage(T, Vals(A))

\* WeightedCircAverage has returned two means for equal weights other than 1
WeightedReducesWitness ==
    /\ call = "WeightedCircAverage" /\ Len(A) >= 2
    /\ \A i \in 1..Len(A) : A[i][2] = Q(1, 2)
    /\ Cardinality(ret) = 2

\* C7: CircAverage2(A) is the set CircAverage(A).
AlgorithmEquivalence ==
    call = "CircAverage2" => ret = CircAverage(T, Vals(A))

\* CircAverage2 has returned two means of three samples
AlgorithmEquivalenceWitness ==
    call = "CircAverage2" /\ Len(A) = 3 /\ Cardinality(ret) = 2

\* C8: each statistics function returns at least one value for a non-empty
\* vector.
NonEmptyResult ==
    call \in {"CircAverage", "CircAverage2", "WeightedCircAverage", "CircMedian"} =>
        (A # <<>> /\ ret # {})

\* CircMedian has returned for an even-sized vector
NonEmptyResultWitness ==
    call = "CircMedian" /\ Len(A) = 2 /\ ret # {}

\* C9: GetAvrg on an averager without measurements returns false; on an
\* averager with one measurement (C, t) it returns true and yields C.
GetAvrgSmallCases ==
    [][GetAvrg =>
          /\ m_nSamples = 0 => got' = "false"
          /\ m_nSamples = 1 => (got' = "true" /\ Avrg' = m_PrevC)]_vars

\* GetAvrg has yielded the one measurement, which is not the zero point
GetAvrgOneWitness ==
    m_nSamples = 1 /\ got = "true" /\ Avrg = m_PrevC /\ Avrg # T.Z /\ m_fPrevTime # I(0)

\* C10: GetAvrg after n >= 2 measurements of increasing timestamps returns
\* true and yields the least member of WeightedCircAverage of the n-1
\* intervals, a minimiser of the weighted sum of squared distances to the
\* midpoints; after two measurements it yields the midpoint.
GetAvrgGeneralCase ==
    [][(GetAvrg /\ m_nSamples >= 2) =>
          LET W == WeightedCircAverage(T, m_Intervals)
              n == WeightUnits(m_Intervals) * NumMeas
              obj == GridObjective(T, n, m_Intervals, TRUE)
          IN  /\ got' = "true"
              /\ OnGrid(T, n, m_Intervals)
              /\ Len(m_Intervals) = m_nSamples - 1
              /\ \A j \in 1..Len(m_Intervals) : Gt(m_Intervals[j][2], I(0))
              /\ Avrg' \in W /\ \A x \in W : Le(Avrg', x)
              /\ WSumSqDist(T, Avrg', m_Intervals) = SquaredSteps(T, n, LeastOf(obj))
              /\ m_nSamples = 2 => Avrg' = m_Intervals[1][1]]_vars

\* GetAvrg has yielded one of two tied means of two intervals
GetAvrgGeneralWitness ==
    /\ m_nSamples = 3 /\ got = "true"
    /\ Cardinality(WeightedCircAverage(T, m_Intervals)) = 2
    /\ Avrg \in WeightedCircAverage(T, m_Intervals)

\* C11: an accepted AddMeasurement(C, fTime) makes (C, fTime) the previous
\* sample and counts it; the first one records no interval, every later one
\* appends the interval (Wrap(C_j + Sdist(C_j, C)/2), fTime - t_j) of positive
\* weight, so that k measurements leave k-1 intervals.
IntervalDerivation ==
    [][(AddMeasurement /\ ~aborted') =>
          /\ m_nSamples' = m_nSamples + 1
          /\ m_PrevC' = args'[1] /\ m_fPrevTime' = args'[2]
          /\ Len(m_Intervals') = m_nSamples' - 1
          /\ m_nSamples = 0 => m_Intervals' = <<>>
          /\ m_nSamples # 0 =>
                /\ m_Intervals' =
                      Append(m_Intervals,
                             <<Wrap(T, Add(m_PrevC, Div(Sdist(T, m_PrevC, args'[1]), I(2)))),
                               Sub(args'[2], m_fPrevTime)>>)
                /\ Gt(Sub(args'[2], m_fPrevTime), I(0))]_vars

\* three measurements have left two intervals of different midpoints, the
\* second one with a midpoint that is not its last sample
IntervalDerivationWitness ==
    /\ m_nSamples = 3 /\ Len(m_Intervals) = 2 /\ ~aborted
    /\ m_Intervals[1][1] # m_Intervals[2][1]
    /\ m_Intervals[2][1] # m_PrevC
    /\ m_PrevC = args[1] /\ m_fPrevTime = args[2]

\* C12: AddMeasurement with fTime <= the previous timestamp on an averager
\* that holds a measurement fails at the assertion and changes nothing, so
\* every recorded weight is positive; the first measurement is accepted with
\* any timestamp.
TimestampOrder ==
    [][AddMeasurement =>
          /\ (m_nSamples >= 1 /\ Le(args'[2], m_fPrevTime)) =>
                (aborted' /\ UNCHANGED <<m_nSamples, m_PrevC, m_fPrevTime, m_Intervals>>)
          /\ m_nSamples = 0 => (~aborted' /\ m_nSamples' = 1 /\ m_fPrevTime' = args'[2])
          /\ \A j \in 1..Len(m_Intervals') : Gt(m_Intervals'[j][2], I(0))]_vars

\* a second or later measurement with the timestamp of the previous one has
\* failed the assertion
TimestampOrderWitness ==
    /\ aborted /\ m_nSamples >= 1 /\ args[2] = m_fPrevTime
    /\ Len(m_Intervals) = m_nSamples - 1

\* C13: the value Wrap(r) that CircVal(double r) and operator=(double r)
\* store is ((r - L) mod R) + L, lies in [L, H) and is a fixed point of Wrap;
\* constructing a CircVal from the stored value of any c gives back c.
WrapTotality ==
    /\ call \in {"CircVal(double)", "operator=(double)"} =>
          /\ val = WrapGeneral(T, args[1])
          /\ IsInRange(T, val)
          /\ Wrap(T, val) = val
    /\ CircValOf(T, val) = val

\* C14: Sdist(c1, c2) lies in [-R/2, R/2), Pdist(c1, c2) lies in [0, R), and
\* each leads from c1 to c2: Wrap(c1 + Sdist(c1, c2)) = c2 and
\* Wrap(c1 + Pdist(c1, c2)) = c2.
DistanceBounds ==
    /\ call = "Sdist" =>
          /\ Ge(ret, Neg(R_2(T))) /\ Lt(ret, R_2(T))
          /\ Wrap(T, Add(args[1], ret)) = args[2]
    /\ call = "Pdist" =>
          /\ Ge(ret, I(0)) /\ Lt(ret, R(T))
          /\ Wrap(T, Add(args[1], ret)) = args[2]

\* the values a and b are exactly half a turn apart
HalfTurnApart(Type, a, b) == Ord(a) = Ord(b) /\ abs(Sub(b, a)) = R_2(Type)

\* C15: Sdist(a, b) = -Sdist(b, a), except when a and b are exactly R/2
\* apart, in which case Sdist(a, b) and Sdist(b, a) both equal -R/2.
SdistAntisymmetry ==
    call = "Sdist" =>
        IF HalfTurnApart(T, args[1], args[2])
        THEN ret = Neg(R_2(T)) /\ Sdist(T, args[2], args[1]) = Neg(R_2(T))
        ELSE ret = Neg(Sdist(T, args[2], args[1]))

\* C15, amended: Sdist(a, b) = -Sdist(b, a), except when the difference
\* b.val - a.val as computed is R/2 or -R/2, in which case Sdist(a, b) and
\* Sdist(b, a) both equal -R/2.
SdistAntisymmetryComputed ==
    call = "Sdist" =>
        IF abs(Sub(args[2], args[1])) = R_2(T)
        THEN ret = Neg(R_2(T)) /\ Sdist(T, args[2], args[1]) = Neg(R_2(T))
        ELSE ret = Neg(Sdist(T, args[2], args[1]))

\* Sdist has returned -R/2 for two values that are not exactly half a turn
\* apart but whose computed difference is R/2
SdistAntisymmetryWitness ==
    /\ call = "Sdist" /\ ret = Neg(R_2(T))
    /\ ~HalfTurnApart(T, args[1], args[2])
    /\ Sub(args[2], args[1]) = R_2(T)

\* the lines of Test that compare the two sides of a group-like law
GroupLawLines ==
    {"c1+c2 = c2+c1", "c1+(c2+c3) = (c1+c2)+c3", "c+(-c) = z", "c+z = c",
     "c-c = z", "c1-c2 = -(c2-c1)"}

\* the first k of the values c1, c2, c3 are free of rounding: none is below
\* half an ulp of another one or of L, H or Z
ExactValues(k) == \A i \in 1..k : Ord(args[i]) = 0

\* C16: on every valid descriptor a+b = b+a, a+(b+c) = (a+b)+c, a+(-a) = Z,
\* a+Z = a, a-a = Z and a-b = -(b-a) for all circular values a, b, c.
GroupLaws ==
    call \in GroupLawLines => (ValidType(T) /\ ret[1] = ret[2])

\* C16, amended: on every valid descriptor a+b = b+a and a-a = Z for all
\* circular values; a+(b+c) = (a+b)+c, a+(-a) = Z, a+Z = a and
\* a-b = -(b-a) for all circular values whose sums are free of rounding.
GroupLawsExact ==
    /\ call \in {"c1+c2 = c2+c1", "c-c = z"} => (ValidType(T) /\ ret[1] = ret[2])
    /\ (call = "c1+(c2+c3) = (c1+c2)+c3" /\ ExactValues(3)) => ret[1] = ret[2]
    /\ (call \in {"c+(-c) = z", "c+z = c"} /\ ExactValues(1)) => ret[1] = ret[2]
    /\ (call = "c1-c2 = -(c2-c1)" /\ ExactValues(2)) => ret[1] = ret[2]

\* the two sides of the associative law are equal for three values whose
\* sums wrap around the range, on a descriptor with a zero point other than 0
GroupLawsWitness ==
    /\ call = "c1+(c2+c3) = (c1+c2)+c3" /\ ExactValues(3) /\ ret[1] = ret[2]
    /\ T.Z # I(0)
    /\ Ge(Sub(Add(args[2], args[3]), T.Z), T.H)
    /\ ~IsInRange(T, Sub(Add(args[1], ret[1]), T.Z))

\* the lines of Test that compare a circular value with its round trip
\* through the reals
RoundTripLines ==
    {"c1 = ToC(ToR(c1))", "-c1 = ToC(ToR(-c1))",
     "c1+c2 = ToC(ToR(c1)+ToR(c2))", "c1-c2 = ToC(ToR(c1)-ToR(c2))"}

\* ToR(a) lies in [L-Z, H-Z), and ToR(Z) = 0
ToRRange ==
    call = "ToR" =>
        /\ Ge(ret, Sub(T.L, T.Z)) /\ Lt(ret, Sub(T.H, T.Z))
        /\ args[1] = T.Z => ret = I(0)

\* C17: ToR(a) lies in [L-Z, H-Z) with ToR(Z) = 0, ToC(ToR(a)) = a,
\* a+b = ToC(ToR(a)+ToR(b)), a-b = ToC(ToR(a)-ToR(b)) and -a = ToC(ToR(-a)),
\* for all circular values a, b.
RealRoundTrip ==
    /\ ToRRange
    /\ call \in RoundTripLines => ret[1] = ret[2]

\* C17, amended: ToR(a) lies in [L-Z, H-Z) with ToR(Z) = 0 for all circular
\* values; ToC(ToR(a)) = a, a+b = ToC(ToR(a)+ToR(b)),
\* a-b = ToC(ToR(a)-ToR(b)) and -a = ToC(ToR(-a)) for all circular values
\* whose sums are free of rounding.
RealRoundTripExact ==
    /\ ToRRange
    /\ (call \in {"c1 = ToC(ToR(c1))", "-c1 = ToC(ToR(-c1))"} /\ ExactValues(1)) =>
          ret[1] = ret[2]
    /\ (call \in {"c1+c2 = ToC(ToR(c1)+ToR(c2))", "c1-c2 = ToC(ToR(c1)-ToR(c2))"}
            /\ ExactValues(2)) =>
          ret[1] = ret[2]

\* the sum of two values is the circular value of the sum of their reals,
\* which lies above the range of the reals, on a descriptor with a zero
\* point other than 0
RealRoundTripWitness ==
    /\ call = "c1+c2 = ToC(ToR(c1)+ToR(c2))" /\ ExactValues(2) /\ ret[1] = ret[2]
    /\ T.Z # I(0)
    /\ Ge(Add(ToR(T, args[1]), ToR(T, args[2])), Sub(T.H, T.Z))

\* C18: the value c' that construction or assignment from a value c of
\* another descriptor T2 stores has Pdist(Z, c') = Pdist_T2(Z_T2, c) * R / R_T2;
\* Z_T2 becomes Z, and converting c' back to T2 gives c (in exact
\* arithmetic: c is a value whose products and sums are exact).
ConversionProportional ==
    call \in {"CircVal(CircVal<Type2>)", "operator=(CircVal<Type2>)"} =>
        /\ Pdist(T, CircValOf(T, T.Z), val)
              = Div(Mul(Pdist(args[1], CircValOf(args[1], args[1].Z), args[2]), R(T)), R(args[1]))
        /\ args[2] = args[1].Z => val = T.Z
        /\ CircValFrom(args[1], T, val) = args[2]
        /\ val = CircValFrom(T, args[1], args[2])
        /\ val = AssignFrom(T, args[1], args[2])

\* a value below the zero point of its descriptor has been assigned to a
\* value of a descriptor of another range, where it lies below the zero
\* point as well
ConversionProportionalWitness ==
    /\ call = "operator=(CircVal<Type2>)"
    /\ R(args[1]) # R(T)
    /\ Lt(args[2], args[1].Z) /\ Lt(val, T.Z)

\* C19: for an even-sized vector, each pair S[m], S[n] of circularly
\* consecutive sorted samples with Sdist(S[m], S[n]) = -R/2 has both
\* bisectors S[m] - R/4 and S[n] - R/4 among the candidates; CircMedian of two
\* samples half a turn apart returns both bisectors, in either order of the
\* samples.
AntipodalAmbiguity ==
    (call = "CircMedian" /\ Len(A) % 2 = 0) =>
        LET S == SortAsc(Vals(A))
            B == Candidates(T, Vals(A))
            R_4 == Div(R(T), I(4))
        IN  /\ \A m \in 1..Len(S) :
                  Sdist(T, S[m], S[(m % Len(S)) + 1]) = Neg(R_2(T)) =>
                      /\ Wrap(T, Sub(S[m], R_4)) \in B
                      /\ Wrap(T, Sub(S[(m % Len(S)) + 1], R_4)) \in B
            /\ (Len(A) = 2 /\ Sdist(T, A[1][1], A[2][1]) = Neg(R_2(T))) =>
                  /\ ret = {Wrap(T, Sub(A[1][1], R_4)), Wrap(T, Add(A[1][1], R_4))}
                  /\ Cardinality(ret) = 2
                  /\ CircMedian(T, <<A[2][1], A[1][1]>>) = ret

\* CircMedian has returned for four samples of which only the last and the
\* first of the sorted ones are half a turn apart
AntipodalAmbiguityWitness ==
    /\ call = "CircMedian" /\ Len(A) = 4
    /\ LET S == SortAsc(Vals(A))
       IN  /\ Sdist(T, S[4], S[1]) = Neg(R_2(T))
           /\ \A m \in 1..3 : Sdist(T, S[m], S[m + 1]) # Neg(R_2(T))
    /\ ret # {}

\* C20: after the accumulation loop of WeightedCircAverage fASumW is the sum
\* of w_i, fASumWA the sum of w_i*v_i and fASumWA2 the sum of w_i*v_i^2 over
\* all samples, and the objective value kept in fMinSumSqrDiff is the
\* weighted sum of squared distances of every returned candidate.
WeightedRunningSums ==
    call = "WeightedCircAverage" =>
        LET a == ToDegPairs(T, A)
            n == Len(A)
        IN  /\ SumW(a, n) = SumTo([i \in 1..n |-> a[i][2]], n)
            /\ SumWA(a, n) = SumTo([i \in 1..n |-> Mul(a[i][2], a[i][1])], n)
            /\ LoopSumWA2(a, n) = SumTo([i \in 1..n |-> Mul(a[i][2], Sqr(a[i][1]))], n)
            /\ \A x \in ret :
                  WeightedCircAverageMin(T, a).min
                      = WSumSqDist(UnsignedDegRange, Convert(UnsignedDegRange, T, x), a)

\* the angles in [0,360) of the samples of P, each of weight 1
DegSamples(Type, P) == [i \in 1..Len(P) |-> <<ToDeg(Type, Vals(P))[i], I(1)>>]

\* C21: CircAverage hands a sector's minimiser to TestSum only if it lies in
\* the sector as documented, the last D sector being [lowerAngles[last]+180, 360)
\* and the last C sector [0, upperAngles[last]-180), so that every value
\* handed to TestSum with a candidate is the sum of the squared signed
\* distances from that candidate to the samples.
SectorRestrictedEvaluation ==
    call = "CircAverage" =>
        LET v == ToDeg(T, Vals(A))
            calls == TestSumCalls(v)
            LowerAngles == SortAsc(Filter(v, TRUE))
            UpperAngles == Reverse(SortAsc(Filter(v, FALSE)))
            lastD == LastD(Len(v), SumTo(v, Len(v)), SumSqrs(v), LowerAngles)
            lastC == LastC(Len(v), SumTo(v, Len(v)), SumSqrs(v), UpperAngles)
        IN  /\ \A k \in 1..Len(calls) :
                  calls[k].sum = WSumSqDist(UnsignedDegRange, calls[k].avrg, DegSamples(T, A))
            /\ (lastD # <<>> /\ LowerAngles # <<>>) =>
                  Ge(lastD[1].avrg, Add(LowerAngles[Len(LowerAngles)], I(180)))
            /\ (lastC # <<>> /\ UpperAngles # <<>>) =>
                  Lt(lastC[1].avrg, Sub(UpperAngles[Len(UpperAngles)], I(180)))

\* C22: a call of GetAvrg leaves m_nSamples, m_PrevC, m_fPrevTime and
\* m_Intervals as they were, so another call of GetAvrg right after it yields
\* the same value and return value, and the measurements added so far
\* determine the fields whatever calls of GetAvrg came between them.
GetAvrgReadOnly ==
    [][GetAvrg =>
          /\ UNCHANGED <<m_nSamples, m_PrevC, m_fPrevTime, m_Intervals>>
          /\ GetAvrgResult(T, m_nSamples', m_PrevC', m_Intervals') = <<Avrg', got' = "true">>
          /\ args' = args]_vars

\* GetAvrg has yielded the mean of two intervals with different midpoints,
\* which is not the first midpoint, and all fields still hold the three
\* measurements
GetAvrgReadOnlyWitness ==
    /\ m_nSamples = 3 /\ Len(m_Intervals) = 2 /\ got = "true"
    /\ m_Intervals[1][1] # m_Intervals[2][1]
    /\ Avrg = GetAvrgResult(T, m_nSamples, m_PrevC, m_Intervals)[1]
    /\ Avrg # m_Intervals[1][1]
    /\ args = <<m_PrevC, m_fPrevTime>>

====
